---- MODULE Spec2Model ----
(***************************************************************************)
(* The DynamoDB store of kvtools (dynamodb.go): the table's items with     *)
(* their revision and expiration attributes, the conditional operations    *)
(* AtomicPut and AtomicDelete, and the lease lock built on them            *)
(* (dynamodbLock.Lock, tryLock, holdLock, Unlock).                         *)
(*                                                                         *)
(* Time is the Unix clock in whole seconds (now).  Every backend call      *)
(* (GetItem, UpdateItem, DeleteItem) is one atomic step of the table; the  *)
(* code of a function that follows one of its backend calls runs in the    *)
(* step of that call.                                                      *)
(***************************************************************************)
EXTENDS Integers, Sequences, FiniteSets, TLC

\* ------------------------------------------------------------- bounds
MaxTime == 3
MaxStoreTime == 2
MaxRev == 2
MaxCalls == 4
MaxLiveTime == 7
\* opts.TTL of the lock handles, in seconds (a heartbeat every ttl/3 is then
\* shorter than one second: a heartbeat tick is available at every instant).
LockTTL == 1

\* ---------------------------------------------------------- constants
\* time.NewTicker(3 * time.Second) in Lock.
LockRetrySeconds == 3
\* ":incr": {N: "1"}.
Incr == 1

\* An item without the expiration_time attribute.
NoExp == -1
\* l.last == nil / previous == nil.
NilRev == 0

\* DeleteTreeTimeoutSeconds.
DeleteTreeTimeoutSeconds == 30
\* time.NewTicker(1 * time.Second) in retryDeleteTree.
DeleteTreeTickSeconds == 1

\* The keys of the table DeleteTree runs on, as their characters, and the
\* keyPrefix given to DeleteTree.
KeyDA == <<"d", "/", "a">>
KeyDB == <<"d", "/", "b">>
KeyE == <<"e">>
TreeKeys == {KeyDA, KeyDB, KeyE}
KeyPrefix == <<"d", "/">>
\* FilterExpression begins_with(id, :namePrefix).
begins_with(k, p) == Len(k) >= Len(p) /\ SubSeq(k, 1, Len(p)) = p

Keys == {"mylock"}
LockKey == "mylock"
Handles == {"A", "B"}
Other(h) == IF h = "A" THEN "B" ELSE "A"
\* NewLock: the value of each handle (opts.Value).
LockValue(h) == IF h = "A" THEN "a" ELSE "b"

\* ------------------------------------------------------- the item
\* base64.StdEncoding.EncodeToString / DecodeString on the values used here;
\* "-" stands for an item without the encoded_value attribute.
NoValueAttr == "-"
EncodeToString(v) == CASE v = "a" -> "YQ==" [] v = "b" -> "Yg==" [] OTHER -> ""
DecodeString(s) == CASE s = "YQ==" -> "a" [] s = "Yg==" -> "b" [] OTHER -> ""

\* GetItem's Item == nil: no item under the key.
Absent == [rev |-> 0, val |-> NoValueAttr, exp |-> NoExp]

\* A variant of isItemExpired that parses the attribute without looking whether
\* the item has it.
isItemExpiredWithoutLookup(item, t) == item.exp < t
isItemExpired(item, t) == item.exp # NoExp /\ item.exp < t

\* decodeItem: the KVPair's Value and LastIndex.
decodeItem(item) ==
    [Value |-> IF item.val = NoValueAttr THEN "" ELSE DecodeString(item.val),
     LastIndex |-> item.rev]

\* ------------------------------------------------------- variants
\* Variants of the definitions below that the properties must tell apart from
\* them.
\* An update that leaves the version attribute alone.
UpdateKeepVersion(item, value, ttlVal) ==
    [rev |-> IF item.rev = 0 THEN Incr ELSE item.rev,
     val |-> IF value # "" THEN EncodeToString(value) ELSE item.val,
     exp |-> IF ttlVal # NoExp THEN ttlVal ELSE item.exp]
\* An update that adds to the version only when it sets a value.
UpdateNoIncrOnEmpty(item, value, ttlVal) ==
    [rev |-> IF value # "" THEN item.rev + Incr ELSE item.rev,
     val |-> IF value # "" THEN EncodeToString(value) ELSE item.val,
     exp |-> IF ttlVal # NoExp THEN ttlVal ELSE item.exp]
\* An update that removes the expiration time when no TTL is given.
UpdateResetsExpiration(item, value, ttlVal) ==
    [rev |-> item.rev + Incr,
     val |-> IF value # "" THEN EncodeToString(value) ELSE item.val,
     exp |-> ttlVal]
\* A pre-check that takes an expired item for an existing key.
PreCheckIgnoresExpiry(previous, item, t) == previous = NilRev /\ item # Absent

\* time.Now().Add(opts.TTL).Unix(), or NoExp when opts is nil or TTL <= 0.
TtlVal(ttl, t) == IF ttl > 0 THEN t + ttl ELSE NoExp

\* The update expression "ADD version :incr SET encoded_value = :encv,
\* expiration_time = :ttl" applied to the stored item (Absent: a new item).
UpdateItem(item, value, ttlVal) ==
    [rev |-> item.rev + Incr,
     val |-> IF value # "" THEN EncodeToString(value) ELSE item.val,
     exp |-> IF ttlVal # NoExp THEN ttlVal ELSE item.exp]

\* AtomicPut's condition expression, evaluated by the backend on the stored item:
\* version = :lastRevision AND (attribute_not_exists(expiration_time) OR
\* (attribute_exists(expiration_time) AND expiration_time > :timeNow)).
PutCondition(item, lastRevision, timeNow) ==
    /\ item # Absent
    /\ item.rev = lastRevision
    /\ (item.exp = NoExp \/ (item.exp # NoExp /\ item.exp > timeNow))

\* AtomicDelete's condition expression: version = :lastRevision.
DeleteCondition(item, lastRevision) == item # Absent /\ item.rev = lastRevision

\* AtomicPut / AtomicDelete after getKey: previous == nil, the item read is
\* present and not expired now.
PreCheckExists(previous, item, t) ==
    previous = NilRev /\ item # Absent /\ ~isItemExpired(item, t)

\* ------------------------------------------------------- the state
VARIABLES
    table,      \* the DynamoDB table: key -> item (Absent: no item)
    now,        \* time.Now().Unix()
    pc,         \* per handle/client, the caller's goroutine: idle, in tryLock, in Lock's
                \* select, at Unlock's send, in Unlock's AtomicDelete, or in a direct
                \* call of Store.AtomicPut / Store.AtomicDelete
    hl,         \* per handle, the holdLock goroutine: off, at its select, in hold()
    apc,        \* per handle, the backend call AtomicPut/AtomicDelete is about to make
    tprep,      \* per handle, time.Now().Unix() read while building the request
    last,       \* per handle, l.last.LastIndex (NilRev: l.last == nil); for a client
                \* of the store, the LastIndex of the KVPair it last obtained
    held,       \* per handle, the lockHeld channel Lock returned: none, open, closed
    ctxDone,    \* per handle, whether the context given to Lock is cancelled (FALSE
                \* once neither Lock nor holdLock runs with it)
    tickAt,     \* per handle, when Lock's ticker next delivers (0: no ticker yet)
    ret,        \* per handle, what the last call returned
    args,       \* per client, the arguments of its running direct call
    exitBy,     \* history: per handle, the select case or the error of hold() that
                \* ended holdLock
    owners,     \* history: the lock handles whose writes made the item now stored under
                \* LockKey, the latest writer last, each with the kind of its latest
                \* write (empty once the item is deleted)
    stale,      \* history: the handles for which a successful write to the key has
                \* occurred after they obtained the revision in last
    nwrites,    \* history: the successful Put/AtomicPut on the key since it was last
                \* absent
    ncalls,     \* the direct calls of the store the clients have made
    lvalue,     \* per handle, l.value: the holder value NewLock was given
    out,        \* per client, what its last Exists and its last List returned: the
                \* bool, and the keys of the KVPairs
    stored,     \* DeleteTree: the keys of the items in the table
    dpc,        \* DeleteTree: idle, before its Scan, before a BatchWriteItem, or at
                \* retryDeleteTree's select
    scanned,    \* DeleteTree: the keys of res.Items
    items,      \* retryDeleteTree: the keys of the request's RequestItems
    unprocessed, \* retryDeleteTree: the keys of batchResult.UnprocessedItems
    dret,       \* DeleteTree: what the last call returned
    elapsed,    \* retryDeleteTree: seconds since the timeout goroutine and the
                \* ticker were started (-1: not started)
    tickC,      \* retryDeleteTree: ticker.C holds a tick
    timeoutC    \* retryDeleteTree: the timeout channel holds its value

vars == <<table, now, pc, hl, apc, tprep, last, held, ctxDone, tickAt, ret,
          args, exitBy, owners, stale, nwrites, ncalls, out, lvalue,
          stored, dpc, scanned, items, unprocessed, dret, elapsed, tickC, timeoutC>>

\* The variables of DeleteTree, and all the others.
treeVars == <<stored, dpc, scanned, items, unprocessed, dret, elapsed, tickC, timeoutC>>
kvVars == <<table, now, pc, hl, apc, tprep, last, held, ctxDone, tickAt, ret,
            args, exitBy, owners, stale, nwrites, ncalls, out, lvalue>>

\* The variables only the lock's goroutines change.
lockOnly == <<hl, held, ctxDone, tickAt, exitBy>>
\* The table and the histories a write or a delete changes.
store == <<table, owners, stale, nwrites>>

Ret(op, err) == [op |-> op, err |-> err, raced |-> FALSE]
NoRet == Ret("none", "none")
NoOut == [exists |-> FALSE, keys |-> {}]
NoArgs == [value |-> "", prev |-> NilRev, ttl |-> 0, met |-> FALSE, stale |-> FALSE]

\* The state after NewLock for each handle with the holder values given.
InitWith(values) ==
    /\ lvalue = values
    /\ table = [k \in Keys |-> Absent]
    /\ now = 0
    /\ pc = [h \in Handles |-> "idle"]
    /\ hl = [h \in Handles |-> "off"]
    /\ apc = [h \in Handles |-> "none"]
    /\ tprep = [h \in Handles |-> 0]
    /\ last = [h \in Handles |-> NilRev]
    /\ held = [h \in Handles |-> "none"]
    /\ ctxDone = [h \in Handles |-> FALSE]
    /\ tickAt = [h \in Handles |-> 0]
    /\ ret = [h \in Handles |-> NoRet]
    /\ args = [h \in Handles |-> NoArgs]
    /\ exitBy = [h \in Handles |-> "none"]
    /\ owners = <<>>
    /\ stale = {}
    /\ nwrites = 0
    /\ ncalls = 0
    /\ out = [h \in Handles |-> NoOut]
    /\ stored = TreeKeys
    /\ dpc = "idle"
    /\ scanned = {}
    /\ items = {}
    /\ unprocessed = {}
    /\ dret = "none"
    /\ elapsed = -1
    /\ tickC = FALSE
    /\ timeoutC = FALSE

Init == InitWith([h \in Handles |-> LockValue(h)])

\* A variant of RetryErrors: tryLock passes ErrKeyExists on to Lock.
RetryErrorsWithoutKeyExists == {"ErrKeyNotFound", "ErrKeyModified"}
\* Errors tryLock turns into "not acquired, try again".
RetryErrors == {"ErrKeyNotFound", "ErrKeyModified", "ErrKeyExists"}

\* ------------------------------------------------- the backend's writes
\* History only: what a successful write of handle h is now: the takeover of a
\* running holder's lease whose revision is unchanged and whose expiration has
\* elapsed, or another write.
WriteKind(h) ==
    IF /\ pc[h] = "trylock" /\ last[h] = NilRev
       /\ hl[Other(h)] # "off" /\ last[Other(h)] = table[LockKey].rev
       /\ isItemExpired(table[LockKey], now)
    THEN "takeover"
    ELSE "write"

\* UpdateItem applied by the backend for h; obtains: whether h gets the new item
\* back (AtomicPut's ReturnValues ALL_NEW; Put returns only the error).
StoreWrite(h, new, obtains) ==
    /\ table' = [table EXCEPT ![LockKey] = new]
    /\ owners' = IF pc[h] = "trylock" \/ hl[h] = "hold"
                 THEN Append(SelectSeq(owners, LAMBDA e : e.w # h),
                             [w |-> h, by |-> WriteKind(h)])
                 ELSE owners
    /\ stale' = (stale \cup {o \in Handles : last[o] # NilRev})
                    \ (IF obtains THEN {h} ELSE {})
    /\ nwrites' = nwrites + 1

\* DeleteItem applied by the backend; forgets: the handles whose last becomes nil.
StoreDelete(forgets) ==
    /\ table' = [table EXCEPT ![LockKey] = Absent]
    /\ owners' = <<>>
    /\ stale' = stale \ forgets
    /\ nwrites' = 0

\* ------------------------------------------------ Lock, tryLock, holdLock
\* A variant of HoldExit: the channel is closed but the loop stays at its select.
HoldExitLeavesLoop(h, cause) ==
    /\ exitBy' = [exitBy EXCEPT ![h] = cause]
    /\ hl' = [hl EXCEPT ![h] = "select"]
    /\ held' = [held EXCEPT ![h] = "closed"]
    /\ ctxDone' = [ctxDone EXCEPT ![h] = FALSE]
\* holdLock returns, and its deferred close(lockHeld) runs.
HoldExit(h, cause) ==
    /\ exitBy' = [exitBy EXCEPT ![h] = cause]
    /\ hl' = [hl EXCEPT ![h] = "off"]
    /\ held' = [held EXCEPT ![h] = "closed"]
    /\ ctxDone' = [ctxDone EXCEPT ![h] = FALSE]

\* tryLock after AtomicPut returned (err, item), and Lock after tryLock returned.
TryLockReturn(h, err, rev) ==
    /\ UNCHANGED args
    /\ IF err = "nil"
       THEN /\ last' = [last EXCEPT ![h] = rev]
            /\ hl' = [hl EXCEPT ![h] = "select"]
            /\ held' = [held EXCEPT ![h] = "open"]
            /\ pc' = [pc EXCEPT ![h] = "idle"]
            /\ ret' = [ret EXCEPT ![h] = Ret("Lock", "nil")]
            /\ tickAt' = [tickAt EXCEPT ![h] = 0]
            /\ UNCHANGED <<ctxDone, exitBy>>
       ELSE IF err \in RetryErrors
       THEN /\ pc' = [pc EXCEPT ![h] = "wait"]
            /\ tickAt' = [tickAt EXCEPT ![h] =
                             IF tickAt[h] = 0 THEN now + LockRetrySeconds ELSE tickAt[h]]
            /\ UNCHANGED <<last, hl, held, ret, ctxDone, exitBy>>
       ELSE /\ pc' = [pc EXCEPT ![h] = "idle"]
            /\ ret' = [ret EXCEPT ![h] = Ret("Lock", err)]
            /\ tickAt' = [tickAt EXCEPT ![h] = 0]
            /\ ctxDone' = [ctxDone EXCEPT ![h] = FALSE]
            /\ UNCHANGED <<last, hl, held, exitBy>>

\* A variant of HoldReturn: the loop goes on after a failed hold().
HoldGoesOnAfterError(h, err, rev) ==
    /\ UNCHANGED args
    /\ last' = [last EXCEPT ![h] = IF err = "nil" THEN rev ELSE last[h]]
    /\ hl' = [hl EXCEPT ![h] = "select"]
    /\ UNCHANGED <<held, pc, ret, tickAt, ctxDone, exitBy>>
\* hold() after AtomicPut returned, and holdLock's loop after hold() returned.
HoldReturn(h, err, rev) ==
    /\ UNCHANGED args
    /\ IF err = "nil"
       THEN /\ last' = [last EXCEPT ![h] = rev]
            /\ hl' = [hl EXCEPT ![h] = "select"]
            /\ UNCHANGED <<held, pc, ret, tickAt, ctxDone, exitBy>>
       ELSE /\ HoldExit(h, err)
            /\ UNCHANGED <<last, pc, ret, tickAt>>

\* A client's direct call of Store.AtomicPut returns (applied, item, err).
DirectPutReturn(h, err, rev) ==
    /\ pc' = [pc EXCEPT ![h] = "idle"]
    /\ ret' = [ret EXCEPT ![h] = [op |-> "AtomicPut", err |-> err,
                                  raced |-> args[h].met]]
    /\ last' = [last EXCEPT ![h] = IF err = "nil" THEN rev ELSE last[h]]
    /\ args' = [args EXCEPT ![h] = NoArgs]
    /\ UNCHANGED lockOnly

\* AtomicPut's parameters: from tryLock and hold(), or from the client's call.
PutValue(h) == IF pc[h] = "atomicput" THEN args[h].value ELSE lvalue[h]
PutPrevious(h) == IF pc[h] = "atomicput" THEN args[h].prev ELSE last[h]
PutTTL(h) == IF pc[h] = "atomicput" THEN args[h].ttl ELSE LockTTL

\* AtomicPut returns to its caller.
AtomicPutReturn(h, err, rev) ==
    /\ apc' = [apc EXCEPT ![h] = "none"]
    /\ tprep' = [tprep EXCEPT ![h] = 0]
    /\ IF pc[h] = "atomicput" THEN DirectPutReturn(h, err, rev)
       ELSE IF pc[h] = "trylock" THEN TryLockReturn(h, err, rev)
       ELSE HoldReturn(h, err, rev)

InAtomicPut(h) == pc[h] \in {"trylock", "atomicput"} \/ hl[h] = "hold"

\* Lock is called on an idle handle whose hold loop is not running.
LockCall(h) ==
    /\ pc[h] = "idle" /\ hl[h] = "off"
    /\ pc' = [pc EXCEPT ![h] = "trylock"]
    /\ apc' = [apc EXCEPT ![h] = "get"]
    /\ ctxDone' = [ctxDone EXCEPT ![h] = FALSE]
    /\ held' = [held EXCEPT ![h] = "none"]
    /\ ret' = [ret EXCEPT ![h] = NoRet]
    /\ exitBy' = [exitBy EXCEPT ![h] = "none"]
    /\ UNCHANGED <<treeVars, lvalue, out, store, now, ncalls, hl, tprep, last, tickAt,
                   args>>

\* AtomicPut: ddb.getKey, the pre-check on getRes when previous is nil, and the
\* request's :ttl and :timeNow.
AtomicPutGet(h) ==
    /\ InAtomicPut(h) /\ apc[h] = "get"
    /\ IF PreCheckExists(PutPrevious(h), table[LockKey], now)
       THEN AtomicPutReturn(h, "ErrKeyExists", NilRev)
       ELSE /\ tprep' = [tprep EXCEPT ![h] = now]
            /\ apc' = [apc EXCEPT ![h] = "update"]
            /\ UNCHANGED <<pc, last, ret, args, lockOnly>>
    /\ UNCHANGED <<treeVars, lvalue, out, store, now, ncalls>>

\* AtomicPut: UpdateItemWithContext, applied by the backend in one step.
AtomicPutUpdate(h) ==
    /\ InAtomicPut(h) /\ apc[h] = "update"
    /\ LET item == table[LockKey]
           new == UpdateItem(item, PutValue(h), TtlVal(PutTTL(h), tprep[h]))
       IN  IF PutPrevious(h) = NilRev \/ PutCondition(item, PutPrevious(h), tprep[h])
           THEN /\ item.rev < MaxRev
                /\ StoreWrite(h, new, TRUE)
                /\ AtomicPutReturn(h, "nil", decodeItem(new).LastIndex)
           ELSE /\ UNCHANGED store
                /\ AtomicPutReturn(h, "ErrKeyModified", NilRev)
    /\ UNCHANGED <<treeVars, lvalue, out, now, ncalls>>

\* A backend call of AtomicPut made with a cancelled context fails.
AtomicPutCancelled(h) ==
    /\ InAtomicPut(h) /\ apc[h] \in {"get", "update"}
    /\ ctxDone[h]
    /\ AtomicPutReturn(h, "RequestCanceled", NilRev)
    /\ UNCHANGED <<treeVars, lvalue, out, store, now, ncalls>>

\* Lock's select: case <-ticker.C.
LockTick(h) ==
    /\ pc[h] = "wait" /\ tickAt[h] <= now
    /\ pc' = [pc EXCEPT ![h] = "trylock"]
    /\ apc' = [apc EXCEPT ![h] = "get"]
    /\ tickAt' = [tickAt EXCEPT ![h] =
           tickAt[h] + LockRetrySeconds * (((now - tickAt[h]) \div LockRetrySeconds) + 1)]
    /\ UNCHANGED <<treeVars, lvalue, out, store, now, ncalls, hl, tprep, last, held,
                   ctxDone, ret, args, exitBy>>

\* Lock's select: case <-ctx.Done().
LockCtxDone(h) ==
    /\ pc[h] = "wait" /\ ctxDone[h]
    /\ pc' = [pc EXCEPT ![h] = "idle"]
    /\ ret' = [ret EXCEPT ![h] = Ret("Lock", "ErrLockAcquireCancelled")]
    /\ tickAt' = [tickAt EXCEPT ![h] = 0]
    /\ ctxDone' = [ctxDone EXCEPT ![h] = FALSE]
    /\ UNCHANGED <<treeVars, lvalue, out, store, now, ncalls, hl, apc, tprep, last,
                   held, args, exitBy>>

\* The caller cancels the context it gave to Lock.
CancelCtx(h) ==
    /\ ~ctxDone[h]
    /\ pc[h] \in {"trylock", "wait"} \/ hl[h] # "off"
    /\ ctxDone' = [ctxDone EXCEPT ![h] = TRUE]
    /\ UNCHANGED <<treeVars, lvalue, out, store, now, ncalls, pc, hl, apc, tprep, last,
                   held, tickAt, ret, args, exitBy>>

\* holdLock's select: case <-heartbeat.C, hold() starts.
HoldHeartbeat(h) ==
    /\ hl[h] = "select"
    /\ hl' = [hl EXCEPT ![h] = "hold"]
    /\ apc' = [apc EXCEPT ![h] = "get"]
    /\ UNCHANGED <<treeVars, lvalue, out, store, now, ncalls, pc, tprep, last, held,
                   ctxDone, tickAt, ret, args, exitBy>>

\* holdLock's select: case <-l.renewCh.
HoldRenewStop(h) ==
    /\ hl[h] = "select"
    /\ HoldExit(h, "renewCh")
    /\ UNCHANGED <<treeVars, lvalue, out, store, now, ncalls, pc, apc, tprep, last,
                   tickAt, ret, args>>

\* holdLock's select: case <-ctx.Done().
HoldCtxDone(h) ==
    /\ hl[h] = "select" /\ ctxDone[h]
    /\ HoldExit(h, "ctx")
    /\ UNCHANGED <<treeVars, lvalue, out, store, now, ncalls, pc, apc, tprep, last,
                   tickAt, ret, args>>

\* ------------------------------------------------------------ Unlock
UnlockCall(h) ==
    /\ pc[h] = "idle"
    /\ pc' = [pc EXCEPT ![h] = "unlock_send"]
    /\ ret' = [ret EXCEPT ![h] = NoRet]
    /\ UNCHANGED <<treeVars, lvalue, out, store, now, ncalls, apc, tprep, last, args,
                   lockOnly>>

\* l.unlockCh <- struct{}{} meets holdLock's case <-l.unlockCh.
UnlockSend(h) ==
    /\ pc[h] = "unlock_send" /\ hl[h] = "select"
    /\ HoldExit(h, "unlockCh")
    /\ pc' = [pc EXCEPT ![h] = "unlock"]
    /\ apc' = [apc EXCEPT ![h] = "get"]
    /\ UNCHANGED <<treeVars, lvalue, out, store, now, ncalls, tprep, last, tickAt, ret,
                   args>>

InAtomicDelete(h) == pc[h] \in {"unlock", "atomicdelete"}
DeletePrevious(h) == IF pc[h] = "atomicdelete" THEN args[h].prev ELSE last[h]

\* A variant of AtomicDeleteReturn: Unlock keeps l.last after the delete.
AtomicDeleteReturnKeepsLast(h, err) ==
    /\ pc' = [pc EXCEPT ![h] = "idle"]
    /\ apc' = [apc EXCEPT ![h] = "none"]
    /\ IF pc[h] = "unlock"
       THEN /\ ret' = [ret EXCEPT ![h] = Ret("Unlock", err)]
            /\ UNCHANGED <<last, args>>
       ELSE /\ ret' = [ret EXCEPT ![h] = Ret("AtomicDelete", err)]
            /\ args' = [args EXCEPT ![h] = NoArgs]
            /\ UNCHANGED last
\* AtomicDelete returns to its caller: Unlock (which clears l.last when err is
\* nil) or the client's direct call.
AtomicDeleteReturn(h, err) ==
    /\ pc' = [pc EXCEPT ![h] = "idle"]
    /\ apc' = [apc EXCEPT ![h] = "none"]
    /\ IF pc[h] = "unlock"
       THEN /\ ret' = [ret EXCEPT ![h] = Ret("Unlock", err)]
            /\ last' = [last EXCEPT ![h] = IF err = "nil" THEN NilRev ELSE last[h]]
            /\ UNCHANGED args
       ELSE /\ ret' = [ret EXCEPT ![h] = Ret("AtomicDelete", err)]
            /\ args' = [args EXCEPT ![h] = NoArgs]
            /\ UNCHANGED last

\* AtomicDelete: ddb.getKey and the pre-check on getRes when previous is nil.
AtomicDeleteGet(h) ==
    /\ InAtomicDelete(h) /\ apc[h] = "get"
    /\ IF PreCheckExists(DeletePrevious(h), table[LockKey], now)
       THEN AtomicDeleteReturn(h, "ErrKeyExists")
       ELSE /\ apc' = [apc EXCEPT ![h] = "update"]
            /\ UNCHANGED <<pc, ret, last, args>>
    /\ UNCHANGED <<treeVars, lvalue, out, store, now, ncalls, tprep, lockOnly>>

\* AtomicDelete: DeleteItemWithContext with the condition version = :lastRevision
\* (a request without :lastRevision, previous == nil, is refused by the backend).
AtomicDeleteDelete(h) ==
    /\ InAtomicDelete(h) /\ apc[h] = "update"
    /\ IF DeletePrevious(h) = NilRev
       THEN /\ UNCHANGED store
            /\ AtomicDeleteReturn(h, "ValidationException")
       ELSE IF DeleteCondition(table[LockKey], DeletePrevious(h))
       THEN /\ StoreDelete(IF pc[h] = "unlock" THEN {h} ELSE {})
            /\ AtomicDeleteReturn(h, "nil")
       ELSE /\ UNCHANGED store
            /\ AtomicDeleteReturn(h, "ErrKeyNotFound")
    /\ UNCHANGED <<treeVars, lvalue, out, now, ncalls, tprep, lockOnly>>

\* ------------------------------------------------------------- time
\* One second passes, up to second max.
Elapse(max) ==
    /\ now < max
    /\ now' = now + 1
    /\ UNCHANGED <<treeVars, lvalue, out, store, ncalls, pc, apc, tprep, last, ret,
                   args, lockOnly>>

Tick == Elapse(MaxTime)

\* ------------------------------------------- direct calls of the store
\* The values and TTLs a client passes (an empty value leaves the value
\* attribute alone; TTL 0: opts.TTL unset).
ClientValues(h) == {LockValue(h), ""}
ClientTTLs == {0, LockTTL}

\* A client calls Store.AtomicPut(key, value, previous, opts); previous is nil
\* or the KVPair the client last obtained.
CallAtomicPut(h, value, prev, ttl) ==
    /\ pc[h] = "idle" /\ ncalls < MaxCalls
    /\ ncalls' = ncalls + 1
    /\ prev \in {NilRev, last[h]}
    /\ LET o == Other(h)
           meets == /\ prev # NilRev
                    /\ pc[o] = "atomicput" /\ args[o].prev = prev
       IN  args' = [args EXCEPT
                      ![h] = [value |-> value, prev |-> prev, ttl |-> ttl,
                              met |-> meets,
                              stale |-> prev # NilRev /\ h \in stale],
                      ![o] = IF meets THEN [args[o] EXCEPT !.met = TRUE] ELSE args[o]]
    /\ pc' = [pc EXCEPT ![h] = "atomicput"]
    /\ apc' = [apc EXCEPT ![h] = "get"]
    /\ ret' = [ret EXCEPT ![h] = NoRet]
    /\ UNCHANGED <<treeVars, lvalue, out, store, now, tprep, last, lockOnly>>

\* A client calls Store.AtomicDelete(key, previous) with the KVPair it last
\* obtained.
CallAtomicDelete(h) ==
    /\ pc[h] = "idle" /\ ncalls < MaxCalls
    /\ ncalls' = ncalls + 1
    /\ args' = [args EXCEPT ![h] = [NoArgs EXCEPT !.prev = last[h],
                                       !.stale = last[h] # NilRev /\ h \in stale]]
    /\ pc' = [pc EXCEPT ![h] = "atomicdelete"]
    /\ apc' = [apc EXCEPT ![h] = "get"]
    /\ ret' = [ret EXCEPT ![h] = NoRet]
    /\ UNCHANGED <<treeVars, lvalue, out, store, now, tprep, last, lockOnly>>

\* Store.Put: one unconditional UpdateItemWithContext.
Put(h, value, ttl) ==
    /\ pc[h] = "idle" /\ ncalls < MaxCalls
    /\ ncalls' = ncalls + 1
    /\ table[LockKey].rev < MaxRev
    /\ StoreWrite(h, UpdateItem(table[LockKey], value, TtlVal(ttl, now)), FALSE)
    /\ ret' = [ret EXCEPT ![h] = Ret("Put", "nil")]
    /\ UNCHANGED <<treeVars, lvalue, out, now, pc, apc, tprep, last, args, lockOnly>>

\* What Store.Get returns for the item getKey read at time t: ErrKeyNotFound
\* for no item or an expired one, else the decoded KVPair.
GetReturn(item, t) ==
    IF item = Absent \/ isItemExpired(item, t)
    THEN [err |-> "ErrKeyNotFound", Value |-> "", LastIndex |-> NilRev]
    ELSE [err |-> "nil", Value |-> decodeItem(item).Value,
          LastIndex |-> decodeItem(item).LastIndex]

\* Store.Get: getKey, then ErrKeyNotFound for no item or an expired one.
Get(h) ==
    /\ pc[h] = "idle" /\ ncalls < MaxCalls
    /\ ncalls' = ncalls + 1
    /\ LET res == GetReturn(table[LockKey], now)
       IN  IF res.err # "nil"
           THEN /\ ret' = [ret EXCEPT ![h] = Ret("Get", res.err)]
                /\ UNCHANGED <<last, stale>>
           ELSE /\ ret' = [ret EXCEPT ![h] = Ret("Get", "nil")]
                /\ last' = [last EXCEPT ![h] = res.LastIndex]
                /\ stale' = stale \ {h}
    /\ UNCHANGED <<treeVars, lvalue, out, table, owners, nwrites, now, pc, apc, tprep,
                   args, lockOnly>>

\* Store.Delete: one unconditional DeleteItemWithContext.
Delete(h) ==
    /\ pc[h] = "idle" /\ ncalls < MaxCalls
    /\ ncalls' = ncalls + 1
    /\ StoreDelete({})
    /\ ret' = [ret EXCEPT ![h] = Ret("Delete", "nil")]
    /\ UNCHANGED <<treeVars, lvalue, out, now, pc, apc, tprep, last, args, lockOnly>>

\* Store.Exists: GetItem, then false for no item or an expired one.
Exists(h) ==
    /\ pc[h] = "idle" /\ ncalls < MaxCalls
    /\ ncalls' = ncalls + 1
    /\ LET item == table[LockKey]
       IN  out' = [out EXCEPT ![h].exists =
                      IF item = Absent THEN FALSE
                      ELSE IF isItemExpired(item, now) THEN FALSE
                      ELSE TRUE]
    /\ ret' = [ret EXCEPT ![h] = Ret("Exists", "nil")]
    /\ UNCHANGED <<treeVars, lvalue, store, now, pc, apc, tprep, last, args, lockOnly>>

\* The characters of the keys and of the directories given to List.
Chars(s) ==
    CASE s = "mylock" -> <<"m", "y", "l", "o", "c", "k">>
      [] s = "my"     -> <<"m", "y">>
      [] OTHER        -> <<"z">>
Directories == {"my", "mylock", "z"}

\* Store.List: the Scan with begins_with(id, :namePrefix), ErrKeyNotFound for
\* no item, then the KVPairs of the items that are neither the directory
\* itself nor expired.
List(h, directory) ==
    /\ pc[h] = "idle" /\ ncalls < MaxCalls
    /\ ncalls' = ncalls + 1
    /\ LET found == {k \in Keys : /\ table[k] # Absent
                                  /\ begins_with(Chars(k), Chars(directory))}
           kvArray == {k \in found : /\ k # directory
                                     /\ ~isItemExpired(table[k], now)}
       IN  IF found = {}
           THEN /\ ret' = [ret EXCEPT ![h] = Ret("List", "ErrKeyNotFound")]
                /\ out' = [out EXCEPT ![h].keys = {}]
           ELSE /\ ret' = [ret EXCEPT ![h] = Ret("List", "nil")]
                /\ out' = [out EXCEPT ![h].keys = kvArray]
    /\ UNCHANGED <<treeVars, lvalue, store, now, pc, apc, tprep, last, args, lockOnly>>

StoreNext(h) ==
    \/ \E v \in ClientValues(h), p \in 0..MaxRev, t \in ClientTTLs :
           CallAtomicPut(h, v, p, t)
    \/ CallAtomicDelete(h)
    \/ \E v \in ClientValues(h), t \in ClientTTLs : Put(h, v, t)
    \/ Get(h)
    \/ Delete(h)
    \/ AtomicPutGet(h)
    \/ AtomicPutUpdate(h)
    \/ AtomicDeleteGet(h)
    \/ AtomicDeleteDelete(h)

\* The clock of the clients' runs.
StoreTick == now < MaxStoreTime /\ Tick

NextCAS == StoreTick \/ \E h \in Handles : StoreNext(h)

\* Two clients calling the store on one key.
SpecCAS == Init /\ [][NextCAS]_vars

ReadNext(h) ==
    \/ \E v \in ClientValues(h), t \in ClientTTLs : Put(h, v, t)
    \/ Get(h)
    \/ Exists(h)
    \/ \E d \in Directories : List(h, d)
    \/ Delete(h)

NextRead == StoreTick \/ \E h \in Handles : ReadNext(h)

\* Two clients writing and reading one key.
SpecRead == Init /\ [][NextRead]_vars

\* ------------------------------------------ DeleteTree, retryDeleteTree
\* A variant of Resubmission: the whole previous request is sent again.
ResubmitWholeRequest(request, result) == request
\* RequestItems of a request of the loop: batchResult.UnprocessedItems.
Resubmission(request, result) == result

\* DeleteTree / retryDeleteTree returns v.
DeleteTreeReturn(v) ==
    /\ dpc' = "idle"
    /\ dret' = v
    /\ elapsed' = -1 /\ tickC' = FALSE /\ timeoutC' = FALSE

DeleteTreeCall ==
    /\ dpc = "idle"
    /\ dpc' = "scan"
    /\ dret' = "none"
    /\ scanned' = {} /\ items' = {} /\ unprocessed' = {}
    /\ UNCHANGED <<kvVars, stored, elapsed, tickC, timeoutC>>

\* ScanWithContext with the prefix filter, and the first request built from
\* res.Items (nil is returned for no item).
Scan ==
    /\ dpc = "scan"
    /\ LET res == {k \in stored : begins_with(k, KeyPrefix)}
       IN  /\ scanned' = res
           /\ IF res = {}
              THEN DeleteTreeReturn("nil") /\ UNCHANGED items
              ELSE /\ items' = res
                   /\ dpc' = "batch"
                   /\ UNCHANGED <<dret, elapsed, tickC, timeoutC>>
    /\ UNCHANGED <<kvVars, stored, unprocessed>>

\* BatchWriteItemWithContext: the backend deletes a part of the request and
\* reports the rest as unprocessed; retryDeleteTree returns nil for an empty
\* rest and goes to its select otherwise, starting the timeout goroutine and the
\* ticker after the first call.
BatchWriteItem ==
    /\ dpc = "batch"
    /\ \E done \in SUBSET items :
          /\ stored' = stored \ done
          /\ unprocessed' = items \ done
          /\ IF items \ done = {}
             THEN DeleteTreeReturn("nil")
             ELSE /\ dpc' = "select"
                  /\ elapsed' = IF elapsed = -1 THEN 0 ELSE elapsed
                  /\ UNCHANGED <<dret, tickC, timeoutC>>
    /\ UNCHANGED <<kvVars, scanned, items>>

\* A backend call of DeleteTree fails: the error is returned.
BackendError ==
    /\ dpc \in {"scan", "batch"}
    /\ DeleteTreeReturn("BackendError")
    /\ UNCHANGED <<kvVars, stored, scanned, items, unprocessed>>

\* One second passes for the ticker and for the timeout goroutine's Sleep.
TreeSecond ==
    /\ elapsed >= 0 /\ elapsed =< DeleteTreeTimeoutSeconds
    /\ elapsed' = elapsed + DeleteTreeTickSeconds
    /\ tickC' = TRUE
    /\ timeoutC' = (timeoutC \/ elapsed + DeleteTreeTickSeconds >= DeleteTreeTimeoutSeconds)
    /\ UNCHANGED <<kvVars, stored, dpc, scanned, items, unprocessed, dret>>

\* retryDeleteTree's select: case <-ticker.C.
SelectTicker ==
    /\ dpc = "select" /\ tickC
    /\ tickC' = FALSE
    /\ items' = Resubmission(items, unprocessed)
    /\ dpc' = "batch"
    /\ UNCHANGED <<kvVars, stored, scanned, unprocessed, dret, elapsed, timeoutC>>

\* retryDeleteTree's select: case <-timeout.
SelectTimeout ==
    /\ dpc = "select" /\ timeoutC
    /\ DeleteTreeReturn("ErrDeleteTreeTimeout")
    /\ UNCHANGED <<kvVars, stored, scanned, items, unprocessed>>

NextTree ==
    \/ DeleteTreeCall
    \/ Scan
    \/ BatchWriteItem
    \/ BackendError
    \/ TreeSecond
    \/ SelectTicker
    \/ SelectTimeout

\* One caller of DeleteTree on a table of three keys.
SpecTree == Init /\ [][NextTree]_vars

LockNext(h) ==
    \/ LockCall(h)
    \/ AtomicPutGet(h)
    \/ AtomicPutUpdate(h)
    \/ AtomicPutCancelled(h)
    \/ LockTick(h)
    \/ LockCtxDone(h)
    \/ CancelCtx(h)
    \/ HoldHeartbeat(h)
    \/ HoldRenewStop(h)
    \/ HoldCtxDone(h)
    \/ UnlockCall(h)
    \/ UnlockSend(h)
    \/ AtomicDeleteGet(h)
    \/ AtomicDeleteDelete(h)

Next == Tick \/ \E h \in Handles : LockNext(h)

\* Two lock handles on one key.
Spec == Init /\ [][Next]_vars

\* Two lock handles on one key, the second made by NewLock without a value
\* (opts.Value empty: l.value stays nil).
HolderValues == [h \in Handles |-> IF h = "A" THEN LockValue(h) ELSE ""]
SpecHolder == InitWith(HolderValues) /\ [][Next]_vars

\* One lock handle alone on the key. Time passes, the backend answers, Lock's
\* ticker delivers, and a caller whose handle is idle with its hold loop ended
\* calls Lock again; cancelling and unlocking stay the caller's choice.
LiveHandle == "A"
LiveTick == Elapse(MaxLiveTime)
Progress(h) == AtomicPutGet(h) \/ AtomicPutUpdate(h) \/ LockTick(h)
NextLive == LiveTick \/ LockNext(LiveHandle)
SpecLive ==
    /\ Init /\ [][NextLive]_vars
    /\ WF_vars(LiveTick)
    /\ WF_vars(Progress(LiveHandle))
    /\ WF_vars(LockCall(LiveHandle))

\* ------------------------------------------------------- properties
LockItem == table[LockKey]
LatestWriter == IF owners = <<>> THEN "none" ELSE owners[Len(owners)].w

\* C1: two handles on the same key never both have the channel Lock returned
\* open at the same instant.
C1_MutualExclusion == ~(held["A"] = "open" /\ held["B"] = "open")

\* C6, first part: an attempt of Lock by a handle without a last-known item, on
\* the lease of a holder whose hold loop still runs, whose revision is still the
\* holder's and whose expiration has elapsed, passes the pre-check and, when its
\* update is applied (and its context is not cancelled), acquires: the revision
\* grows by one, the expiration is refreshed and the handle's channel is open.
TakeoverOf(h, o) ==
    /\ pc[h] = "trylock" /\ last[h] = NilRev
    /\ hl[o] # "off" /\ last[o] = LockItem.rev
TakeoverSucceeds(h) ==
    /\ (/\ TakeoverOf(h, Other(h))
        /\ apc[h] = "get" /\ apc'[h] # "get" /\ ~ctxDone[h]
        /\ isItemExpired(LockItem, now))
       => apc'[h] = "update"
    /\ (/\ TakeoverOf(h, Other(h))
        /\ apc[h] = "update" /\ apc'[h] = "none" /\ ~ctxDone[h]
        /\ isItemExpired(LockItem, now))
       => /\ held'[h] = "open" /\ hl'[h] = "select"
          /\ LockItem'.rev = LockItem.rev + 1
          /\ last'[h] = LockItem'.rev
          /\ LockItem'.exp = tprep[h] + LockTTL
\* C6, second part: once another handle has written the item after this holder
\* did (the takeover), the holder's next renewal fails: it leaves the item as it
\* is and ends the hold loop, closing the holder's channel.
RenewalAfterTakeoverFails(h) ==
    (/\ Len(owners) = 2 /\ owners[1].w = h
     /\ hl[h] = "hold" /\ apc[h] = "update" /\ apc'[h] = "none")
    => /\ hl'[h] = "off" /\ held'[h] = "closed"
       /\ table' = table
C6_LeaseTakeover ==
    [][\A h \in Handles : TakeoverSucceeds(h) /\ RenewalAfterTakeoverFails(h)]_vars
\* B took over A's expired lease (A's revision plus one) and A's renewal failed.
C6_Witness ==
    /\ Len(owners) = 2 /\ owners[1].w = "A"
    /\ owners[2] = [w |-> "B", by |-> "takeover"]
    /\ held["B"] = "open" /\ ret["B"] = Ret("Lock", "nil")
    /\ exitBy["A"] = "ErrKeyModified" /\ held["A"] = "closed"
    /\ LockItem.rev = last["A"] + 1 /\ last["B"] = LockItem.rev
    /\ ~ctxDone["B"]

\* C7: Unlock by a handle whose lease another handle has taken over (the stored
\* item was last written by the other handle) leaves the table unchanged.
C7_FencedRelease ==
    [][\A h \in Handles :
        (/\ pc[h] = "unlock" /\ apc[h] = "update" /\ pc'[h] = "idle"
         /\ LatestWriter = Other(h))
        => table' = table]_vars

\* C8: an Unlock whose conditional delete failed on the condition (lease taken
\* over, expired or removed) returns no error and clears l.last.
C8_ReleaseOfLostLease ==
    \A h \in Handles :
        (ret[h].op = "Unlock" /\ ret[h].err \in {"nil", "ErrKeyNotFound", "ErrKeyModified"})
        => (ret[h].err = "nil" /\ last[h] = NilRev)

\* C9: Unlock does not block: whenever a call of Unlock is at its send on
\* unlockCh, the handle's hold loop exists to receive it (with the hold loop
\* off no step of the handle is enabled: the send never completes and Unlock
\* never returns).
C9_UnlockDoesNotBlock ==
    \A h \in Handles : pc[h] = "unlock_send" => hl[h] # "off"

\* C10: a Lock that returns after its context was cancelled returns
\* ErrLockAcquireCancelled and leaves no lease held for the handle.
C10_AcquireCancellation ==
    [][\A h \in Handles :
        (pc[h] \in {"trylock", "wait"} /\ ctxDone[h] /\ pc'[h] = "idle")
        => /\ ret'[h] = Ret("Lock", "ErrLockAcquireCancelled")
           /\ hl'[h] = "off" /\ table' = table]_vars


\* ----------------------------------------- properties of the store itself
\* C2: once a successful write to the key has occurred after a client obtained
\* revision R, every later AtomicPut or AtomicDelete of that client with
\* previous.LastIndex = R fails and leaves the item alone, whatever the other
\* client did in between (Delete and re-creation included).
C2_Fencing ==
    [][\A h \in Handles :
          (/\ pc[h] \in {"atomicput", "atomicdelete"} /\ args[h].stale
           /\ apc[h] = "update" /\ pc'[h] = "idle")
          => (table' = table /\ ret'[h].err # "nil")]_vars

\* C3: of two AtomicPut calls with the same non-nil previous whose executions
\* overlap, at most one is applied, and each one not applied returns
\* ErrKeyModified.
C3_CasExclusivity ==
    (/\ \A h \in Handles : pc[h] = "idle" /\ ret[h].op = "AtomicPut" /\ ret[h].raced)
    => /\ \E h \in Handles : ret[h].err = "ErrKeyModified"
       /\ \A h \in Handles : ret[h].err \in {"nil", "ErrKeyModified"}
\* Both calls of a race have returned: A's was applied (revision 1 to 2), B's
\* returned ErrKeyModified.
C3_Witness ==
    /\ \A h \in Handles : pc[h] = "idle" /\ ret[h].op = "AtomicPut" /\ ret[h].raced
    /\ ret["A"].err = "nil" /\ ret["B"].err = "ErrKeyModified"
    /\ LockItem.rev = 2 /\ last["A"] = 2 /\ last["B"] = 1

\* C4: an AtomicPut with previous = nil is applied only at an instant where the
\* key is absent or expired (so two racing creations are never both applied).
C4_CreateOnlyIfAbsent ==
    [][\A h \in Handles :
          (/\ pc[h] = "atomicput" /\ args[h].prev = NilRev
           /\ apc[h] = "update" /\ pc'[h] = "idle" /\ ret'[h].err = "nil")
          => (LockItem = Absent \/ isItemExpired(LockItem, now))]_vars

\* C5: every successful Put or AtomicPut increases the stored revision by
\* exactly 1, from 0 for a key without an item: the revision is the number of
\* successful writes since the key was last absent.
C5_RevisionMonotonic == LockItem.rev = nwrites
\* Two writes that neither set a value nor a TTL: the revision is 2.
C5_Witness ==
    /\ nwrites = 2 /\ LockItem.rev = 2
    /\ LockItem.val = NoValueAttr /\ LockItem.exp = NoExp

\* ------------------------------------------- properties of the lock, continued
\* C11: Lock never returns ErrKeyExists, ErrKeyModified or ErrKeyNotFound: an
\* attempt that ends without the lock and without returning leaves Lock waiting
\* for its ticker (period LockRetrySeconds) with no hold loop started, and the
\* next attempt starts only when a tick is due; an attempt that makes Lock
\* return an error returns that error at once, leaves the table alone and
\* starts no hold loop.
AcquireErrorStep(h) ==
    /\ (pc[h] = "trylock" /\ pc'[h] = "wait")
       => /\ ret'[h] = NoRet /\ hl'[h] = "off" /\ held'[h] = "none"
          /\ tickAt'[h] >= LockRetrySeconds
    /\ (pc[h] = "wait" /\ pc'[h] = "trylock")
       => /\ tickAt[h] =< now /\ tickAt'[h] > now
          /\ (tickAt'[h] - tickAt[h]) % LockRetrySeconds = 0
    /\ (pc[h] = "trylock" /\ pc'[h] = "idle" /\ ret'[h].err # "nil")
       => /\ ret'[h] = Ret("Lock", "RequestCanceled")
          /\ hl'[h] = "off" /\ held'[h] = "none" /\ table' = table
          /\ last'[h] = last[h]
C11_AcquireErrorPolicy ==
    /\ [](\A h \in Handles :
            ret[h].op = "Lock" =>
                ret[h].err \notin {"ErrKeyExists", "ErrKeyModified", "ErrKeyNotFound"})
    /\ [][\A h \in Handles : AcquireErrorStep(h)]_vars
\* B's first attempt found A's lease, nothing was returned, and B makes its
\* next attempt at the first tick of its ticker.
C11_Witness ==
    /\ pc["B"] = "trylock" /\ apc["B"] = "get"
    /\ tickAt["B"] = 2 * LockRetrySeconds /\ now = LockRetrySeconds
    /\ ret["B"] = NoRet /\ hl["B"] = "off"
    /\ held["A"] = "open" /\ LockItem # Absent

\* C12: a heartbeat renewal either is applied (the loop goes back to its select
\* with the new revision) or fails, and a failed renewal ends the hold loop and
\* closes the channel Lock returned; a closed channel's hold loop is off, so no
\* renewal follows for that acquisition.
RenewalStep(h) ==
    (hl[h] = "hold" /\ hl'[h] # "hold")
    => \/ /\ LockItem'.rev = LockItem.rev + 1 /\ last'[h] = LockItem'.rev
          /\ hl'[h] = "select" /\ held'[h] = "open"
       \/ /\ table' = table /\ last'[h] = last[h]
          /\ hl'[h] = "off" /\ held'[h] = "closed"
          /\ exitBy'[h] \in {"ErrKeyModified", "ErrKeyExists", "RequestCanceled"}
C12_RenewalFailureIsLoss ==
    /\ [](\A h \in Handles : hl[h] # "off" <=> held[h] = "open")
    /\ [][\A h \in Handles : RenewalStep(h)]_vars
\* A's only renewal came after its lease's expiration: it failed, the item is
\* as A's Lock wrote it, A's channel is closed and its loop is off.
C12_Witness ==
    /\ exitBy["A"] = "ErrKeyModified" /\ held["A"] = "closed" /\ hl["A"] = "off"
    /\ Len(owners) = 1 /\ owners[1].w = "A"
    /\ LockItem.rev = 1 /\ last["A"] = 1 /\ isItemExpired(LockItem, now)
    /\ pc["B"] = "idle" /\ ret["B"] = NoRet

\* C13: a hold loop that takes the unlock signal, the renew-cancel signal or the
\* context's cancellation at its select ends, closes its channel and leaves the
\* table alone; a loop that is off starts again only by a new acquisition, with
\* a new open channel; while Unlock's AtomicDelete runs and after Unlock has
\* returned, no hold loop of the handle runs (no renewal is in flight).
HoldExitStep(h) ==
    /\ (hl[h] = "select" /\ hl'[h] = "off")
       => /\ held[h] = "open" /\ held'[h] = "closed" /\ table' = table
          /\ exitBy'[h] \in {"unlockCh", "renewCh", "ctx"}
    /\ (hl[h] = "off" /\ hl'[h] # "off")
       => /\ pc[h] = "trylock" /\ hl'[h] = "select"
          /\ held[h] = "none" /\ held'[h] = "open"
    /\ (held[h] = "closed" /\ held'[h] # "closed")
       => (pc[h] = "idle" /\ pc'[h] = "trylock" /\ held'[h] = "none")
C13_HoldLoopExit ==
    /\ [](\A h \in Handles :
            (pc[h] = "unlock" \/ ret[h].op = "Unlock")
            => (hl[h] = "off" /\ held[h] = "closed"))
    /\ [][\A h \in Handles : HoldExitStep(h)]_vars
\* A's hold loop took the unlock signal and is off, its channel is closed, and
\* Unlock's DeleteItem on the item A last wrote is about to be sent.
C13_Witness ==
    /\ pc["A"] = "unlock" /\ apc["A"] = "update"
    /\ exitBy["A"] = "unlockCh" /\ hl["A"] = "off" /\ held["A"] = "closed"
    /\ LockItem.rev = last["A"] /\ last["A"] = 2

\* ---------------------------------------------- properties of DeleteTree
\* C14: retryDeleteTree returns nil exactly when a batch call reports an empty
\* unprocessed set (and then at once), and once the deadline has fired with the
\* last reported unprocessed set not empty it does not return nil any more: it
\* returns ErrDeleteTreeTimeout (or the error of a backend call).
ConvergenceStep ==
    /\ (dpc = "batch" /\ unprocessed' = {} /\ dret' # "BackendError")
       => (dpc' = "idle" /\ dret' = "nil")
    /\ (dpc = "batch" /\ dpc' = "idle" /\ dret' = "nil") => unprocessed' = {}
    /\ (timeoutC /\ unprocessed # {} /\ dpc # "idle" /\ dpc' = "idle")
       => dret' \in {"ErrDeleteTreeTimeout", "BackendError"}
C14_BatchDeletionConvergence == [][ConvergenceStep]_vars

\* C20: every request of retryDeleteTree's loop holds exactly the unprocessed
\* set of the call before it; every request holds only keys of the Scan's
\* result, all with the prefix, so that a key without the prefix stays stored;
\* the error of a backend call is returned at once, nothing is sent after it.
ResubmissionStep ==
    /\ (dpc = "select" /\ dpc' = "batch") => (items' = unprocessed /\ items' # {})
    /\ (dpc = "scan" /\ dpc' = "batch") => items' = scanned'
    /\ stored \ stored' \subseteq items
    /\ dret' = "BackendError" => (dpc' = "idle" /\ stored' = stored)
    /\ (dpc = "idle" /\ dret # "none") => (dpc' = "scan" /\ dret' = "none")
C20_TreeDeletionResubmission ==
    /\ [](/\ items \subseteq scanned
          /\ \A k \in scanned : begins_with(k, KeyPrefix)
          /\ KeyE \in stored)
    /\ [][ResubmissionStep]_vars
\* The first request held both keys under the prefix and the backend deleted
\* one: the second request, in flight, holds the other one only.
C20_Witness ==
    /\ dpc = "batch" /\ elapsed >= DeleteTreeTickSeconds
    /\ scanned = {KeyDA, KeyDB} /\ unprocessed = {KeyDB} /\ items = {KeyDB}
    /\ stored = {KeyDB, KeyE}
\* ------------------------------------------------------------- C15
\* What a read by h makes of the item stored under the key: an item whose
\* expiration time is before now is ErrKeyNotFound for Get, false for Exists
\* and left out by List, and stays in the table; an item without expiration
\* time is found by Get and by Exists, and listed under a directory that is
\* a proper prefix of its key.
MaskingStep(h) ==
    LET item == table[LockKey]
        past == item # Absent /\ item.exp # NoExp /\ item.exp < now
        never == item # Absent /\ item.exp = NoExp
    IN  /\ Get(h) =>
            /\ past => ret'[h] = Ret("Get", "ErrKeyNotFound") /\ last'[h] = last[h]
            /\ never => ret'[h] = Ret("Get", "nil") /\ last'[h] = item.rev
            /\ table' = table
        /\ Exists(h) =>
            /\ past => out'[h].exists = FALSE
            /\ never => out'[h].exists = TRUE
            /\ table' = table
        /\ \A d \in Directories : List(h, d) =>
            /\ past => LockKey \notin out'[h].keys
            /\ never /\ d = "my" => LockKey \in out'[h].keys
            /\ table' = table

\* C15: logical-expiration masking. An item whose expiration time is in the
\* past is physically stored, yet Get returns ErrKeyNotFound, Exists returns
\* false and List omits it; an item without the expiration attribute is never
\* reported expired, at any time.
C15_ExpirationMasking == [][\A h \in Handles : MaskingStep(h)]_vars

\* An expired item is in the table, A got ErrKeyNotFound for it from Get and B
\* an empty listing without error from List.
C15_Witness ==
    /\ LockItem # Absent /\ LockItem.exp # NoExp /\ LockItem.exp < now
    /\ ret["A"] = Ret("Get", "ErrKeyNotFound")
    /\ ret["B"] = Ret("List", "nil") /\ out["B"].keys = {}

\* ------------------------------------------------------------- C16
\* The UpdateItem of a client's AtomicPut with previous at revision R, against
\* the item stored when the backend evaluates the condition: applied only on
\* an item at revision R whose expiration time, if any, is not before now;
\* applied whenever that item is at revision R with no expiration time or one
\* after now; otherwise ErrKeyModified and the same table.
ConditionalPutStep(h) ==
    (/\ pc[h] = "atomicput" /\ apc[h] = "update" /\ apc'[h] = "none"
     /\ args[h].prev # NilRev)
    => LET item == table[LockKey]
           atR == item # Absent /\ item.rev = args[h].prev
           applied == ret'[h].err = "nil"
       IN  /\ applied => /\ atR
                         /\ item.exp = NoExp \/ ~(item.exp < now)
                         /\ table'[LockKey].rev = item.rev + Incr
           /\ atR /\ (item.exp = NoExp \/ item.exp > now) => applied
           /\ ~applied => ret'[h].err = "ErrKeyModified" /\ table' = table

\* C16: AtomicPut with a non-nil previous at revision R is applied if and only
\* if, when the condition is evaluated, the stored item exists at revision R
\* and has no expiration or one that has not elapsed; in every other case it
\* returns ErrKeyModified and leaves the item unchanged; a revision match on
\* an expired item does not succeed.
C16_ConditionalPut == [][\A h \in Handles : ConditionalPutStep(h)]_vars

\* ------------------------------------------------------------- C17
\* The DeleteItem of a client's AtomicDelete with previous at revision R,
\* against the item stored when the backend evaluates the condition: applied
\* only on an item at revision R that is not expired, and then the key is
\* absent; ErrKeyModified for an item at another revision; ErrKeyNotFound only
\* for an absent key.
ConditionalDeleteStep(h) ==
    (/\ pc[h] = "atomicdelete" /\ apc[h] = "update" /\ apc'[h] = "none"
     /\ args[h].prev # NilRev)
    => LET item == table[LockKey]
           applied == ret'[h].err = "nil"
       IN  /\ applied => /\ item # Absent /\ item.rev = args[h].prev
                         /\ ~isItemExpired(item, now)
                         /\ table'[LockKey] = Absent
           /\ item # Absent /\ item.rev # args[h].prev
                  => ret'[h].err = "ErrKeyModified" /\ table' = table
           /\ ret'[h].err = "ErrKeyNotFound" => item = Absent

\* C17: AtomicDelete applies the precondition of the conditional put (the
\* revision equals the expected one and the item is not logically expired); on
\* success the item is removed; a revision mismatch with the key present is
\* ErrKeyModified, and ErrKeyNotFound is returned only when the key is absent.
C17_ConditionalDelete == [][\A h \in Handles : ConditionalDeleteStep(h)]_vars

\* ------------------------------------------------------------- C18
\* A Put by h with TTL t on the item stored under the key (Absent: a new
\* item).
PutStep(h, v, t) ==
    Put(h, v, t)
    => LET item == table[LockKey]
           new == table'[LockKey]
       IN  /\ t > 0 => new.exp = now + t
           /\ t = 0 /\ item # Absent => new.exp = item.exp
           /\ t = 0 /\ item = Absent => new.exp = NoExp
           /\ new.rev = item.rev + 1

\* C18: Put with a positive TTL sets the item's expiration to now + ttl; Put
\* without a TTL leaves an existing expiration attribute unchanged and creates
\* a new item with no expiration; in both cases the revision increases by
\* exactly 1.
C18_PutExpiration ==
    [][\A h \in Handles : \A v \in ClientValues(h), t \in ClientTTLs :
          PutStep(h, v, t)]_vars

\* Two Puts, one of each client, made the item at revision 2 from an absent
\* key; a Put with a TTL at second 0 set its expiration time.
C18_Witness ==
    /\ LockItem.rev = 2 /\ nwrites = 2 /\ ncalls = 2
    /\ LockItem.exp = LockTTL /\ now = LockTTL
    /\ ret["A"] = Ret("Put", "nil") /\ ret["B"] = Ret("Put", "nil")
    /\ LockItem.val = EncodeToString(LockValue("A"))

\* ------------------------------------------------------------- C19
\* No competing writer for h: the other handle has never been used.
Uncontended(h) ==
    LET o == Other(h)
    IN  /\ pc[o] = "idle" /\ hl[o] = "off" /\ held[o] = "none"
        /\ ret[o] = NoRet /\ last[o] = NilRev

\* Without a competing writer the item under the key is the one h wrote last:
\* its revision is l.last.LastIndex and the number of h's successful AtomicPut
\* since the key was absent (the acquisition and k renewals: 1 + k); with the
\* key absent l.last is nil.
CycleState(h) ==
    Uncontended(h)
    => IF LockItem = Absent THEN last[h] = NilRev /\ nwrites = 0
       ELSE LockItem.rev = last[h] /\ LockItem.rev = nwrites

\* The steps of the cycle of h without a competing writer. The UpdateItem of
\* tryLock on the absent key, unless the context is cancelled, stores
\* revision 1, records it in l.last and starts the hold loop; the UpdateItem of
\* a successful hold() raises the stored revision and l.last by 1; both set
\* the expiration time to the time.Now() of the AtomicPut call plus the TTL;
\* the DeleteItem of Unlock, with l.last at the stored revision, removes the
\* item, returns nil and sets l.last to nil.
CycleStep(h) ==
    LET applied == apc[h] = "update" /\ apc'[h] = "none" /\ Uncontended(h)
        new == table'[LockKey]
    IN  /\ (/\ applied /\ pc[h] = "trylock" /\ last[h] = NilRev /\ LockItem = Absent
            /\ ret'[h].err # "RequestCanceled")
            => /\ new.rev = 1 /\ last'[h] = 1
               /\ new.exp = tprep[h] + LockTTL
               /\ new.val = EncodeToString(LockValue(h))
               /\ ret'[h] = Ret("Lock", "nil")
               /\ held'[h] = "open" /\ hl'[h] = "select"
        /\ (applied /\ hl[h] = "hold" /\ hl'[h] = "select")
            => /\ new.rev = LockItem.rev + 1 /\ last'[h] = last[h] + 1
               /\ last'[h] = new.rev
               /\ new.exp = tprep[h] + LockTTL
        /\ (applied /\ pc[h] = "unlock")
            => /\ LockItem.rev = last[h] /\ last[h] # NilRev
               /\ new = Absent
               /\ ret'[h] = Ret("Unlock", "nil")
               /\ last'[h] = NilRev

\* C19: the uncontended lock cycle. For a fresh handle on an absent key with
\* no competing writer, Lock stores revision 1 and records it as the handle's
\* last-known item; each of k successful renewals raises the stored revision
\* and the last-known revision by 1 (to 1 + k) and refreshes the expiration to
\* now + ttl; Unlock then deletes the key with expected revision 1 + k,
\* succeeds, and sets the last-known item to nil.
C19_UncontendedCycle ==
    /\ [](\A h \in Handles : CycleState(h))
    /\ [][\A h \in Handles : CycleStep(h)]_vars

\* A acquired the absent key, renewed once, and its Unlock, past the hold loop,
\* is about to delete the key with expected revision 2; B was never used.
C19_Witness ==
    /\ Uncontended("A")
    /\ pc["A"] = "unlock" /\ apc["A"] = "update" /\ exitBy["A"] = "unlockCh"
    /\ last["A"] = 2 /\ LockItem.rev = 2 /\ nwrites = 2
    /\ LockItem.exp # NoExp /\ ~isItemExpired(LockItem, now)

\* ------------------------------------------------------------- C21
\* AtomicPut with previous == nil is admitted on the item at time t: the
\* pre-check on getRes does not return ErrKeyExists.
AdmitsNil(item, t) == ~PreCheckExists(NilRev, item, t)
\* AtomicPut with previous at the item's revision is admitted at time t: the
\* condition expression holds with :timeNow = t.
AdmitsRevision(item, t) == PutCondition(item, item.rev, t)

\* C21: consistent expiry boundary. For every stored item with an expiration
\* time E and revision R and every instant t, t = E included, exactly one of
\* AtomicPut(previous = nil) and AtomicPut(previous.LastIndex = R) is
\* admitted: never both rejected, never both admitted.
C21_ExpiryBoundary ==
    (LockItem # Absent /\ LockItem.exp # NoExp)
    => (AdmitsNil(LockItem, now) <=> ~AdmitsRevision(LockItem, now))

\* ------------------------------------------------------------- C22
\* What a Get at the same instant returns after a write by h: after a Put of
\* a non-empty value, and after the UpdateItem of a client's successful
\* AtomicPut, the KVPair with the revision just assigned and, for a non-empty
\* value, that value.
ReadYourWriteStep(h) ==
    LET item == table[LockKey]
        res == GetReturn(table'[LockKey], now')
    IN  /\ \A v \in ClientValues(h) \ {""}, t \in ClientTTLs :
               Put(h, v, t)
               => res = [err |-> "nil", Value |-> v, LastIndex |-> item.rev + 1]
        /\ (/\ pc[h] = "atomicput" /\ apc[h] = "update" /\ apc'[h] = "none"
            /\ ret'[h].err = "nil")
           => /\ res.err = "nil"
              /\ res.LastIndex = last'[h] /\ res.LastIndex = item.rev + 1
              /\ args[h].value # "" => res.Value = args[h].value

\* C22: read-your-write. After a successful Put of a non-empty value v, or a
\* successful AtomicPut of v, with no operation in between and no TTL
\* elapsing, a consistent Get returns v with the revision just assigned, for
\* every prior state of the key, a physically present but logically expired
\* item and a write without TTL included.
C22_ReadYourWrite == [][\A h \in Handles : ReadYourWriteStep(h)]_vars

\* ------------------------------------------------------------- C23
\* The hold loop of h has ended because a renewal failed, l.last is still set,
\* the handle is idle, and the key is absent or logically expired.
LostAndFree(h) ==
    /\ pc[h] = "idle" /\ hl[h] = "off" /\ held[h] = "closed"
    /\ exitBy[h] \in {"ErrKeyModified", "ErrKeyExists", "ErrKeyNotFound"}
    /\ last[h] # NilRev
    /\ LockItem = Absent \/ isItemExpired(LockItem, now)

\* h holds the lock again, or its caller gave up: it cancelled the context of
\* Lock, or it called Unlock instead of Lock.
ReacquiredOrGivenUp(h) ==
    \/ held[h] = "open"
    \/ ctxDone[h]
    \/ pc[h] = "unlock_send"

\* Why no later attempt can succeed, at any time: an UpdateItem of tryLock with
\* l.last set, whose request was built when the key was absent or its
\* expiration time not after :timeNow, leaves the table and l.last as they are
\* and does not start a hold loop.
AttemptAfterLossFails ==
    [][LET h == LiveHandle
       IN  (/\ pc[h] = "trylock" /\ apc[h] = "update" /\ apc'[h] = "none"
            /\ last[h] # NilRev /\ hl[h] = "off"
            /\ \/ LockItem = Absent
               \/ LockItem.exp # NoExp /\ LockItem.exp <= tprep[h])
           => (held'[h] # "open" /\ table' = table /\ last' = last)]_vars

WroteLast(h) ==
    /\ LockItem # Absent
    /\ LatestWriter = h
    /\ last[h] = LockItem.rev
    /\ h \notin stale

\* C24: holder identity. Whenever a handle's most recent acquire or renewal
\* succeeded and no other write to the key has occurred since, the value
\* stored under the key is that handle's holder value, for every holder value,
\* the empty one included, and for an acquisition that takes over the
\* physically present, logically expired item of a previous holder.
C24_HolderIdentity ==
    \A h \in Handles : WroteLast(h) => decodeItem(LockItem).Value = lvalue[h]

====
